---- MODULE Spec2Model ----
(***************************************************************************)
(* Model of scripts/make_screenshots.py: the TerminalEmulator byte-stream  *)
(* interpreter (feed, _newline, _scroll, _put_char, _handle_csi,           *)
(* _apply_sgr, reset) and color_from_index.                                *)
(*                                                                         *)
(* Bytes and characters are their code points (chr(b) of a byte b is the   *)
(* character with code point b).  Python lists are sequences, so the cell  *)
(* at row cy, column cx (both 0-based in the code) is cells[cy+1][cx+1].   *)
(***************************************************************************)
EXTENDS Integers, Sequences, FiniteSets, TLC

VARIABLES cols, rows,   \* the size given to the constructor
          cells, cx, cy, saved, current_fg, current_bg, bold, state,
          csi_buf, osc_active,
          raised,   \* the last feed call ended by an exception
          final,    \* argument `final` of the last _handle_csi call (0: none)
          ints,     \* local `ints` of the last _handle_csi call that parsed
          fed,      \* every byte passed to feed since construction
          calls,    \* number of feed and draw_text calls made
          svg,      \* the document returned by the last render_svg call
          renders   \* number of render_svg calls made

vars == <<cols, rows, cells, cx, cy, saved, current_fg, current_bg, bold, state,
          csi_buf, osc_active, raised, final, ints, fed, calls,
          svg, renders>>

\* ---------------------------------------------------------------- bounds
Rows == 2
Cols == 3
MaxFeeds == 4
MaxRenders == 2
WideCols == 10
Big == 300

\* ------------------------------------------------------- byte constants
ESC == 27
CR == 13
LF == 10
BS == 8
TAB == 9
BEL == 7
LBRACKET == 91
RBRACKET == 93
BACKSLASH == 92
AT == 64
TILDE == 126
SEMI == 59
QMARK == 63
SPACE == 32
NUL == 0
AMP == 38
LT == 60
GT == 62
QUOT == 34
APOS == 39
CellW == 9
CellH == 16
Padding == 10
chH == 72
chf == 102
chA == 65
chB == 66
chC == 67
chD == 68
chJ == 74
chK == 75
chm == 109
chs == 115
chu == 117

Max(a, b) == IF a >= b THEN a ELSE b
Min(a, b) == IF a <= b THEN a ELSE b

\* ---------------------------------------------------------------- colours
BASE_COLORS ==
  << <<0, 0, 0>>,       <<205, 49, 49>>,   <<13, 188, 121>>,  <<229, 229, 16>>,
     <<36, 114, 200>>,  <<188, 63, 188>>,  <<17, 168, 205>>,  <<229, 229, 229>>,
     <<102, 102, 102>>, <<241, 76, 76>>,   <<35, 209, 139>>,  <<245, 245, 67>>,
     <<59, 142, 234>>,  <<214, 112, 214>>, <<41, 184, 219>>,  <<255, 255, 255>> >>

\* BASE_COLORS[idx] with the code's 0-based index
Base(idx) == BASE_COLORS[idx + 1]

DefaultFg == <<230, 230, 230>>
DefaultBg == <<10, 12, 16>>

\* Mutant: level 0 of the colour cube is not special.
levelLinear(x) == 55 + x * 40

level(x) == IF x # 0 THEN 55 + x * 40 ELSE 0

color_from_index(idx) ==
  IF idx < 0 THEN Base(7)
  ELSE IF idx < 16 THEN Base(idx)
  ELSE IF idx < 232 THEN
    LET v == idx - 16
        r == (v \div 36) % 6
        g == (v \div 6) % 6
        b == v % 6
    IN  <<level(r), level(g), level(b)>>
  ELSE
    LET v == Max(0, Min(255, 8 + (idx - 232) * 10))
    IN  <<v, v, v>>

\* ------------------------------------------------------------------ cells
Cell(ch, fg, bg, b) == [ch |-> ch, fg |-> fg, bg |-> bg, bold |-> b]

DefaultCell == Cell(SPACE, DefaultFg, DefaultBg, FALSE)

BlankRow(n, fg, bg, b) == [x \in 1..n |-> Cell(SPACE, fg, bg, b)]

\* The emulator object as a record, for the operators below.
Self ==
  [cols |-> cols, rows |-> rows,
   cells |-> cells, cx |-> cx, cy |-> cy, saved |-> saved,
   current_fg |-> current_fg, current_bg |-> current_bg, bold |-> bold,
   state |-> state, csi_buf |-> csi_buf, osc_active |-> osc_active,
   raised |-> raised, final |-> final, ints |-> ints]

\* saved = None is the empty tuple; a saved position is <<cx, cy>>.
None == <<>>

\* Mutant: the full reset forgets to clear the saved cursor.
resetKeepsSaved(e) ==
  [e EXCEPT !.cells = [y \in 1..e.rows |->
                         BlankRow(e.cols, DefaultFg, DefaultBg, FALSE)],
            !.cx = 0, !.cy = 0,
            !.current_fg = DefaultFg, !.current_bg = DefaultBg,
            !.bold = FALSE, !.state = "normal", !.csi_buf = <<>>,
            !.osc_active = FALSE]

reset(e) ==
  [e EXCEPT !.cells = [y \in 1..e.rows |-> BlankRow(e.cols, DefaultFg, DefaultBg, FALSE)],
            !.cx = 0, !.cy = 0, !.saved = None,
            !.current_fg = DefaultFg, !.current_bg = DefaultBg,
            !.bold = FALSE, !.state = "normal", !.csi_buf = <<>>,
            !.osc_active = FALSE]

\* Mutant: the scroll drops the top row without appending a new one.
ScrollDropsRow(e, count) == [e EXCEPT !.cells = Tail(e.cells)]

\* Mutant: the scrolled-in row is built from default cells.
ScrollDefaultRow(e, count) ==
  [e EXCEPT !.cells = Append(Tail(e.cells),
                             BlankRow(e.cols, DefaultFg, DefaultBg, FALSE))]

RECURSIVE Scroll(_, _)
Scroll(e, count) ==
  IF count <= 0 THEN e
  ELSE Scroll([e EXCEPT !.cells =
                 Append(Tail(e.cells),
                        BlankRow(e.cols, e.current_fg, e.current_bg, e.bold))],
              count - 1)

\* Mutant: the newline forgets the last-row case (no clamp, no scroll).
NewlineNoScroll(e) == [e EXCEPT !.cx = 0, !.cy = e.cy + 1]

Newline(e) ==
  LET e1 == [e EXCEPT !.cx = 0, !.cy = e.cy + 1]
  IN  IF e1.cy >= e.rows
        THEN Scroll([e1 EXCEPT !.cy = e.rows - 1], 1)
        ELSE e1

\* Mutant: the cursor is clamped to the last column after the write.
PutCharClamped(e, ch) ==
  [e EXCEPT !.cells[e.cy + 1][Min(e.cx, e.cols - 1) + 1] =
               Cell(ch, e.current_fg, e.current_bg, e.bold),
            !.cx = Min(e.cols - 1, e.cx + 1)]

PutChar(e, ch) ==
  LET e1 == IF e.cx >= e.cols THEN Newline(e) ELSE e
      e2 == IF e1.cy >= e.rows
              THEN [Scroll(e1, 1) EXCEPT !.cy = e.rows - 1]
              ELSE e1
  IN  [e2 EXCEPT !.cells[e2.cy + 1][e2.cx + 1] =
                    Cell(ch, e2.current_fg, e2.current_bg, e2.bold),
                 !.cx = e2.cx + 1]

\* ------------------------------------------------------ CSI parameter text
\* str.split(";")
RECURSIVE Split(_)
Split(s) ==
  IF \A k \in 1..Len(s) : s[k] # SEMI THEN <<s>>
  ELSE LET k == CHOOSE k \in 1..Len(s) :
                   s[k] = SEMI /\ \A j \in 1..(k - 1) : s[j] # SEMI
       IN  <<SubSeq(s, 1, k - 1)>> \o Split(SubSeq(s, k + 1, Len(s)))

\* str.isdigit() over the characters chr(0)..chr(255): the ASCII digits and
\* the superscripts chr(0xB2), chr(0xB3), chr(0xB9) count as digits.
IsDigitChar(c) == (48 <= c /\ c <= 57) \/ c \in {178, 179, 185}
isdigit(p) == Len(p) > 0 /\ \A k \in 1..Len(p) : IsDigitChar(p[k])

\* int(p) raises ValueError unless every character is a decimal digit
\* (among chr(0)..chr(255) only the ASCII digits are).
IntRaises(p) == \E k \in 1..Len(p) : ~(48 <= p[k] /\ p[k] <= 57)

RECURSIVE int(_)
int(p) ==
  IF Len(p) = 0 THEN 0
  ELSE 10 * int(SubSeq(p, 1, Len(p) - 1)) + (p[Len(p)] - 48)

\* lines 165-169: the parameter fields and their values
Params(params_raw) ==
  LET raw == IF Len(params_raw) > 0 /\ params_raw[1] = QMARK
               THEN Tail(params_raw) ELSE params_raw
  IN  SelectSeq(Split(raw), LAMBDA p : Len(p) > 0)

ParseRaises(params) ==
  \E k \in 1..Len(params) : isdigit(params[k]) /\ IntRaises(params[k])

ParseInts(params) ==
  [k \in 1..Len(params) |-> IF isdigit(params[k]) THEN int(params[k]) ELSE 0]

\* ------------------------------------------------------------------- SGR
\* Mutant: the extended colour is set but its parameters are not skipped.
ExtendedNoSkip(e, params, i) ==
  LET is_fg == params[i + 1] = 38
      n == Len(params)
      set(color) == IF is_fg THEN [e EXCEPT !.current_fg = color]
                             ELSE [e EXCEPT !.current_bg = color]
  IN
  IF i + 1 < n /\ params[i + 2] = 2 /\ i + 4 < n THEN
    [e |-> set(<<params[i + 3], params[i + 4], params[i + 5]>>), i |-> i + 1]
  ELSE IF i + 1 < n /\ params[i + 2] = 5 /\ i + 2 < n THEN
    [e |-> set(color_from_index(params[i + 3])), i |-> i + 1]
  ELSE [e |-> e, i |-> i + 1]

\* lines 235-253: p in (38, 48) at 0-based index i; gives the emulator and
\* the index of the next parameter to look at.
Extended(e, params, i) ==
  LET is_fg == params[i + 1] = 38
      n == Len(params)
      set(color) == IF is_fg THEN [e EXCEPT !.current_fg = color]
                             ELSE [e EXCEPT !.current_bg = color]
  IN
  IF i + 1 < n /\ params[i + 2] = 2 /\ i + 4 < n THEN
    [e |-> set(<<params[i + 3], params[i + 4], params[i + 5]>>),
     i |-> i + 4 + 1]
  ELSE IF i + 1 < n /\ params[i + 2] = 5 /\ i + 2 < n THEN
    [e |-> set(color_from_index(params[i + 3])), i |-> i + 2 + 1]
  ELSE [e |-> e, i |-> i + 1]

\* lines 216-253: one iteration of the while loop
SgrStep(e, params, i) ==
  LET p == params[i + 1] IN
  IF p = 0 THEN
    [e |-> [e EXCEPT !.current_fg = DefaultFg, !.current_bg = DefaultBg,
                     !.bold = FALSE], i |-> i + 1]
  ELSE IF p = 1 THEN [e |-> [e EXCEPT !.bold = TRUE], i |-> i + 1]
  ELSE IF 30 <= p /\ p <= 37 THEN
    [e |-> [e EXCEPT !.current_fg = Base(p - 30)], i |-> i + 1]
  ELSE IF 90 <= p /\ p <= 97 THEN
    [e |-> [e EXCEPT !.current_fg = Base(p - 90 + 8)], i |-> i + 1]
  ELSE IF p = 39 THEN [e |-> [e EXCEPT !.current_fg = DefaultFg], i |-> i + 1]
  ELSE IF 40 <= p /\ p <= 47 THEN
    [e |-> [e EXCEPT !.current_bg = Base(p - 40)], i |-> i + 1]
  ELSE IF 100 <= p /\ p <= 107 THEN
    [e |-> [e EXCEPT !.current_bg = Base(p - 100 + 8)], i |-> i + 1]
  ELSE IF p = 49 THEN [e |-> [e EXCEPT !.current_bg = DefaultBg], i |-> i + 1]
  ELSE IF p \in {38, 48} THEN Extended(e, params, i)
  ELSE [e |-> e, i |-> i + 1]

RECURSIVE SgrLoop(_, _, _)
SgrLoop(e, params, i) ==
  IF ~(i < Len(params)) THEN e
  ELSE LET s == SgrStep(e, params, i) IN SgrLoop(s.e, params, s.i)

\* Mutant: an empty parameter list is not taken as [0].
ApplySgrNoDefault(e, params) == SgrLoop(e, params, 0)

\* Mutant: the new attributes are also painted on the cells already written.
ApplySgrRepaints(e, params) ==
  LET r == SgrLoop(e, IF Len(params) = 0 THEN <<0>> ELSE params, 0)
  IN  [r EXCEPT !.cells =
         [y \in 1..e.rows |->
            [x \in 1..e.cols |->
               [e.cells[y][x] EXCEPT !.fg = r.current_fg,
                                     !.bg = r.current_bg,
                                     !.bold = r.bold]]]]

ApplySgr(e, params) ==
  SgrLoop(e, IF Len(params) = 0 THEN <<0>> ELSE params, 0)

\* ---------------------------------------------------------- CSI dispatch
\* Mutant: mode 1 stops before the cursor column.
EraseLineExclusive(e, mode) ==
  LET start == IF mode = 0 THEN e.cx ELSE 0
      end   == IF mode = 1 THEN e.cx ELSE e.cols
  IN  [e EXCEPT !.cells[e.cy + 1] =
         [x \in 1..e.cols |->
            IF start <= x - 1 /\ x - 1 < Min(end, e.cols)
              THEN Cell(SPACE, e.current_fg, e.current_bg, e.bold)
              ELSE e.cells[e.cy + 1][x]]]

\* lines 189-199
EraseLine(e, mode) ==
  LET start == IF mode = 0 THEN e.cx ELSE 0
      end   == IF mode = 1 THEN e.cx + 1 ELSE e.cols
  IN  IF 0 <= e.cy /\ e.cy < e.rows
        THEN [e EXCEPT !.cells[e.cy + 1] =
                [x \in 1..e.cols |->
                   IF start <= x - 1 /\ x - 1 < Min(end, e.cols)
                     THEN Cell(SPACE, e.current_fg, e.current_bg, e.bold)
                     ELSE e.cells[e.cy + 1][x]]]
        ELSE e

\* Mutant: the 1-based parameters are used as 0-based coordinates.
CursorToOneBased(e, is) ==
  LET row == IF Len(is) >= 1 THEN is[1] ELSE 1
      col == IF Len(is) >= 2 THEN is[2] ELSE 1
  IN  [e EXCEPT !.cy = Max(0, Min(e.rows - 1, row)),
                !.cx = Max(0, Min(e.cols - 1, col))]

\* lines 172-175
CursorTo(e, is) ==
  LET row == IF Len(is) >= 1 THEN is[1] ELSE 1
      col == IF Len(is) >= 2 THEN is[2] ELSE 1
  IN  [e EXCEPT !.cy = Max(0, Min(e.rows - 1, row - 1)),
                !.cx = Max(0, Min(e.cols - 1, col - 1))]

\* Mutant: the relative moves are not clamped to the grid.
CursorMoveUnclamped(e, fin, n) ==
  IF fin = chA THEN [e EXCEPT !.cy = e.cy - n]
  ELSE IF fin = chB THEN [e EXCEPT !.cy = e.cy + n]
  ELSE IF fin = chC THEN [e EXCEPT !.cx = e.cx + n]
  ELSE [e EXCEPT !.cx = e.cx - n]

\* lines 176-183, fin one of A B C D
CursorMove(e, fin, n) ==
  IF fin = chA THEN [e EXCEPT !.cy = Max(0, e.cy - n)]
  ELSE IF fin = chB THEN [e EXCEPT !.cy = Min(e.rows - 1, e.cy + n)]
  ELSE IF fin = chC THEN [e EXCEPT !.cx = Min(e.cols - 1, e.cx + n)]
  ELSE [e EXCEPT !.cx = Max(0, e.cx - n)]

\* Mutant: only the column of the saved position is restored.
RestoreColumnOnly(e) ==
  IF e.saved # None THEN [e EXCEPT !.cx = e.saved[1]] ELSE e

\* lines 204-206
RestoreCursor(e) ==
  IF e.saved # None THEN [e EXCEPT !.cx = e.saved[1], !.cy = e.saved[2]]
                    ELSE e

Dispatch(e, fin, is) ==
  LET first == IF Len(is) >= 1 THEN is[1] ELSE 1
      mode  == IF Len(is) >= 1 THEN is[1] ELSE 0
  IN
  IF fin \in {chH, chf} THEN CursorTo(e, is)
  ELSE IF fin \in {chA, chB, chC, chD} THEN CursorMove(e, fin, first)
  ELSE IF fin = chJ THEN (IF mode = 2 THEN reset(e) ELSE e)
  ELSE IF fin = chK THEN (IF mode \in {0, 1, 2} THEN EraseLine(e, mode) ELSE e)
  ELSE IF fin = chm THEN ApplySgr(e, is)
  ELSE IF fin = chs THEN [e EXCEPT !.saved = <<e.cx, e.cy>>]
  ELSE IF fin = chu THEN RestoreCursor(e)
  ELSE e

\* _handle_csi: int() may raise before anything is dispatched.
HandleCsi(e, fin, params_raw) ==
  LET params == Params(params_raw) IN
  IF ParseRaises(params)
    THEN [e EXCEPT !.raised = TRUE, !.final = fin]
    ELSE LET is == ParseInts(params)
         IN  Dispatch([e EXCEPT !.final = fin, !.ints = is], fin, is)

\* ------------------------------------------------------------------ feed
\* Mutant: TAB moves eight columns to the right instead of to the next
\* multiple of eight.
NormalTabEight(e, b) ==
  IF b = ESC THEN [e EXCEPT !.state = "esc"]
  ELSE IF b = CR THEN [e EXCEPT !.cx = 0]
  ELSE IF b = LF THEN Newline(e)
  ELSE IF b = BS THEN [e EXCEPT !.cx = Max(0, e.cx - 1)]
  ELSE IF b = TAB THEN [e EXCEPT !.cx = Min(e.cols - 1, e.cx + 8)]
  ELSE IF b = BEL THEN e
  ELSE IF (32 <= b /\ b <= 126) \/ b >= 160 THEN PutChar(e, b)
  ELSE e

\* One iteration of the while loop on data[i] (0-based i) in state "normal".
Normal(e, b) ==
  IF b = ESC THEN [e EXCEPT !.state = "esc"]
  ELSE IF b = CR THEN [e EXCEPT !.cx = 0]
  ELSE IF b = LF THEN Newline(e)
  ELSE IF b = BS THEN [e EXCEPT !.cx = Max(0, e.cx - 1)]
  ELSE IF b = TAB THEN [e EXCEPT !.cx = Min(e.cols - 1, ((e.cx \div 8) + 1) * 8)]
  ELSE IF b = BEL THEN e
  ELSE IF (32 <= b /\ b <= 126) \/ b >= 160 THEN PutChar(e, b)
  ELSE e

Esc(e, b) ==
  IF b = LBRACKET THEN [e EXCEPT !.state = "csi", !.csi_buf = <<>>]
  ELSE IF b = RBRACKET THEN [e EXCEPT !.osc_active = TRUE, !.state = "osc"]
  ELSE [e EXCEPT !.state = "normal"]

\* the osc branch looks one byte ahead in the same data
OscEndsByEsc(data, i) ==
  data[i + 1] = ESC /\ i + 1 < Len(data) /\ data[i + 2] = BACKSLASH

Csi(e, b) ==
  IF AT <= b /\ b <= TILDE
    THEN LET h == HandleCsi(e, b, e.csi_buf)
         IN  IF h.raised THEN h ELSE [h EXCEPT !.state = "normal"]
    ELSE [e EXCEPT !.csi_buf = Append(e.csi_buf, b)]

RECURSIVE FeedLoop(_, _, _)
FeedLoop(e, data, i) ==
  IF ~(i < Len(data)) \/ e.raised THEN e
  ELSE
    LET b == data[i + 1] IN
    IF e.state = "normal" THEN FeedLoop(Normal(e, b), data, i + 1)
    ELSE IF e.state = "esc" THEN FeedLoop(Esc(e, b), data, i + 1)
    ELSE IF e.state = "osc" THEN
      IF b = BEL THEN
        FeedLoop([e EXCEPT !.osc_active = FALSE, !.state = "normal"],
                 data, i + 1)
      ELSE IF OscEndsByEsc(data, i) THEN
        FeedLoop([e EXCEPT !.osc_active = FALSE, !.state = "normal"],
                 data, i + 1 + 1)
      ELSE FeedLoop(e, data, i + 1)
    ELSE FeedLoop(Csi(e, b), data, i + 1)

\* feed(data) on the emulator e
feed(e, data) == FeedLoop([e EXCEPT !.raised = FALSE], data, 0)

\* TerminalEmulator(cols, rows): __init__ stores the size and calls reset()
New(c, r) ==
  reset([cols |-> c, rows |-> r, cells |-> <<>>, cx |-> 0, cy |-> 0, saved |-> None,
         current_fg |-> DefaultFg, current_bg |-> DefaultBg, bold |-> FALSE,
         state |-> "normal", csi_buf |-> <<>>, osc_active |-> FALSE,
         raised |-> FALSE, final |-> 0, ints |-> <<>>])

Fresh == New(Cols, Rows)

\* ---------------------------------------------------------------- render
\* The document is kept as its elements: the base rectangle's fill, the
\* background rectangles and the text elements with their tspans, in order.
HexDigit(d) ==
  <<"0", "1", "2", "3", "4", "5", "6", "7",
    "8", "9", "a", "b", "c", "d", "e", "f">>[d + 1]

RECURSIVE Hex(_)
Hex(n) == IF n < 16 THEN <<HexDigit(n)>>
          ELSE Append(Hex(n \div 16), HexDigit(n % 16))

\* format spec 02x: at least two digits, zero padded
Hex02(n) == IF n < 16 THEN <<"0">> \o Hex(n) ELSE Hex(n)

rgb_hex(color) == <<"#">> \o Hex02(color[1]) \o Hex02(color[2]) \o Hex02(color[3])

\* html.escape(s, quote=True), one character at a time
EscapeChar(ch) ==
  IF ch = AMP THEN <<38, 97, 109, 112, 59>>
  ELSE IF ch = LT THEN <<38, 108, 116, 59>>
  ELSE IF ch = GT THEN <<38, 103, 116, 59>>
  ELSE IF ch = QUOT THEN <<38, 113, 117, 111, 116, 59>>
  ELSE IF ch = APOS THEN <<38, 35, 120, 50, 55, 59>>
  ELSE <<ch>>

RECURSIVE Escape(_)
Escape(s) == IF s = <<>> THEN <<>> ELSE EscapeChar(Head(s)) \o Escape(Tail(s))

\* Mutant: the inner loop does not compare backgrounds, so a run always
\* extends to the end of the row.
RunEndWholeRow(row, x, bg, n) == n

\* inner while loop, lines 499-500
RECURSIVE RunEnd(_, _, _, _)
RunEnd(row, x, bg, n) ==
  IF x < n /\ row[x + 1].bg = bg THEN RunEnd(row, x + 1, bg, n) ELSE x

\* outer while loop of row y (0-based), from column x; lines 496-507
RECURSIVE RowRects(_, _, _, _)
RowRects(e, y, x, bg0) ==
  IF ~(x < e.cols) THEN <<>>
  ELSE
    LET row  == e.cells[y + 1]
        bg   == row[x + 1].bg
        x2   == RunEnd(row, x, bg, e.cols)
        rect == [x |-> Padding + x * CellW, y |-> Padding + y * CellH,
                 width |-> (x2 - x) * CellW, height |-> CellH,
                 fill |-> rgb_hex(bg)]
    IN  (IF bg # bg0 THEN <<rect>> ELSE <<>>) \o RowRects(e, y, x2, bg0)

RECURSIVE Rects(_, _, _)
Rects(e, y, bg0) ==
  IF y >= Len(e.cells) THEN <<>>
  ELSE RowRects(e, y, 0, bg0) \o Rects(e, y + 1, bg0)

\* flush(), lines 520-531, on acc = [current_fg, current_bold, buffer, out]
flush(acc) ==
  IF acc.buffer = <<>> THEN acc
  ELSE [acc EXCEPT
          !.out = Append(@, [fill |-> IF acc.current_fg # None
                                        THEN rgb_hex(acc.current_fg)
                                        ELSE <<>>,
                             bold |-> acc.current_bold,
                             text |-> Escape(acc.buffer)]),
          !.buffer = <<>>]

\* Mutant: a run is broken on a change of colour only, not of weight.
RECURSIVE SpansIgnoreBold(_, _, _)
SpansIgnoreBold(row, k, acc) ==
  IF k > Len(row) THEN flush(acc).out
  ELSE
    LET cell == row[k]
        ch   == IF cell.ch # NUL THEN cell.ch ELSE SPACE
        a1   == IF cell.fg # acc.current_fg
                  THEN [flush(acc) EXCEPT !.current_fg = cell.fg,
                                          !.current_bold = cell.bold]
                  ELSE acc
    IN  SpansIgnoreBold(row, k + 1, [a1 EXCEPT !.buffer = Append(@, ch)])

\* for cell in row, lines 533-542, from the k-th cell
RECURSIVE Spans(_, _, _)
Spans(row, k, acc) ==
  IF k > Len(row) THEN flush(acc).out
  ELSE
    LET cell == row[k]
        ch   == IF cell.ch # NUL THEN cell.ch ELSE SPACE
        a1   == IF cell.fg # acc.current_fg \/ cell.bold # acc.current_bold
                  THEN [flush(acc) EXCEPT !.current_fg = cell.fg,
                                          !.current_bold = cell.bold]
                  ELSE acc
    IN  Spans(row, k + 1, [a1 EXCEPT !.buffer = Append(@, ch)])

Texts(e) ==
  [y \in 1..Len(e.cells) |->
     [x |-> Padding, y |-> Padding + (y - 1) * CellH,
      spans |-> Spans(e.cells[y], 1,
                      [current_fg |-> None, current_bold |-> FALSE,
                       buffer |-> <<>>, out |-> <<>>])]]

render_svg(e) ==
  LET bg0 == IF e.cells # <<>> THEN e.cells[1][1].bg ELSE <<0, 0, 0>>
  IN  [width  |-> Padding * 2 + e.cols * CellW,
       height |-> Padding * 2 + e.rows * CellH,
       base   |-> rgb_hex(bg0),
       rects  |-> Rects(e, 0, bg0),
       texts  |-> Texts(e)]

\* no render_svg call yet
NoSvg ==
  [width |-> 0, height |-> 0, base |-> <<>>, rects |-> <<>>, texts |-> <<>>]

\* The state after TerminalEmulator(c, r).
Constructed(c, r) ==
  LET n == New(c, r) IN
  /\ cols = n.cols /\ rows = n.rows
  /\ cells = n.cells /\ cx = n.cx /\ cy = n.cy
  /\ saved = n.saved
  /\ current_fg = n.current_fg /\ current_bg = n.current_bg
  /\ bold = n.bold /\ state = n.state /\ csi_buf = n.csi_buf
  /\ osc_active = n.osc_active
  /\ raised = FALSE /\ final = 0 /\ ints = <<>>
  /\ fed = <<>> /\ calls = 0
  /\ svg = NoSvg /\ renders = 0

Init == Constructed(Cols, Rows)

Feed(data) ==
  /\ calls < MaxFeeds
  /\ LET r == feed(Self, data) IN
       /\ cells' = r.cells /\ cx' = r.cx /\ cy' = r.cy /\ saved' = r.saved
       /\ current_fg' = r.current_fg /\ current_bg' = r.current_bg
       /\ bold' = r.bold /\ state' = r.state /\ csi_buf' = r.csi_buf
       /\ osc_active' = r.osc_active
       /\ raised' = r.raised /\ final' = r.final /\ ints' = r.ints
       /\ cols' = r.cols /\ rows' = r.rows
  /\ fed' = fed \o data
  /\ calls' = calls + 1
  /\ UNCHANGED <<svg, renders>>

\* draw_text(screen, x, y, text, fg, bg, bold), lines 262-269
draw_text(e, x, y, text, fg, bg, b) ==
  IF ~(0 <= y /\ y < e.rows) THEN e
  ELSE [e EXCEPT !.cells[y + 1] =
          [xx \in 1..Len(e.cells[y + 1]) |->
             IF x <= xx - 1 /\ xx - 1 < x + Len(text) /\ xx - 1 < e.cols
               THEN Cell(text[xx - x], fg,
                         IF bg # None THEN bg ELSE e.cells[y + 1][xx].bg, b)
               ELSE e.cells[y + 1][xx]]]

\* A draw_text call on the screen.
DrawText(x, y, text, fg, bg, b) ==
  /\ calls < MaxFeeds
  /\ cells' = draw_text(Self, x, y, text, fg, bg, b).cells
  /\ calls' = calls + 1
  /\ UNCHANGED <<cols, rows, cx, cy, saved, current_fg, current_bg,
                 bold, state, csi_buf, osc_active, raised, final, ints,
                 fed, svg, renders>>

\* Mutant: the render call leaves the cursor at the origin.
RenderHomesCursor ==
  /\ renders < MaxRenders
  /\ svg' = render_svg(Self)
  /\ renders' = renders + 1
  /\ cx' = 0 /\ cy' = 0
  /\ UNCHANGED <<cols, rows, cells, saved, current_fg, current_bg,
                 bold, state, csi_buf, osc_active, raised, final, ints,
                 fed, calls>>

\* A render_svg(screen) call: it reads the screen and returns the document.
Render ==
  /\ renders < MaxRenders
  /\ svg' = render_svg(Self)
  /\ renders' = renders + 1
  /\ UNCHANGED <<cols, rows, cells, cx, cy, saved, current_fg, current_bg,
                 bold, state, csi_buf, osc_active, raised, final, ints,
                 fed, calls>>

\* ------------------------------------------------- byte-level specification
\* Any byte of Alphabet, one byte per feed call.
chX == 88
chY == 89
ch2 == 50
SUP2 == 178

Alphabet == {ESC, LBRACKET, RBRACKET, BEL, LF, SEMI, ch2, SUP2, chH, chm, chX}

Chunks == {<<b>> : b \in Alphabet}

Next == \E data \in Chunks : Feed(data)

Spec == Init /\ [][Next]_vars

\* C1: every feed call completes without raising an exception, whatever
\* bytes it is given (here: the last feed call did not raise).
FeedNeverRaises == raised = FALSE

\* ------------------------------------------------------- OSC specification
\* The bytes of escape and OSC sequences, one or two bytes per feed call.
OscAlphabet == {ESC, LBRACKET, RBRACKET, BACKSLASH, BEL, chX, chm}

OscChunks ==
  {<<b>> : b \in OscAlphabet} \cup
  {<<ESC, RBRACKET>>, <<ESC, BACKSLASH>>, <<ESC, LBRACKET>>}

NextOsc == \E data \in OscChunks : Feed(data)

SpecOsc == Init /\ [][NextOsc]_vars

\* What a caller can observe of two emulators being in the same state.
SameState(a, b) ==
  /\ a.cells = b.cells /\ a.cx = b.cx /\ a.cy = b.cy /\ a.saved = b.saved
  /\ a.current_fg = b.current_fg /\ a.current_bg = b.current_bg
  /\ a.bold = b.bold
  /\ a.state = b.state /\ a.csi_buf = b.csi_buf
  /\ a.osc_active = b.osc_active

\* C3: feeding the bytes in several feed calls leaves the emulator in the
\* state that one feed call on the whole byte sequence leaves it in.
ChunkingIndependent == SameState(Self, feed(Fresh, fed))

\* ---------------------------------------------------- input sequences
\* Decimal text of a natural number, and a ';'-joined parameter list.
RECURSIVE Dec(_)
Dec(n) == IF n < 10 THEN <<48 + n>> ELSE Dec(n \div 10) \o <<48 + (n % 10)>>

RECURSIVE ParamText(_)
ParamText(ns) ==
  IF Len(ns) = 0 THEN <<>>
  ELSE IF Len(ns) = 1 THEN Dec(ns[1])
  ELSE Dec(ns[1]) \o <<SEMI>> \o ParamText(Tail(ns))

\* ESC [ params final
CsiSeq(ns, fin) == <<ESC, LBRACKET>> \o ParamText(ns) \o <<fin>>

\* --------------------------------------------------- cursor specification
\* Text, control bytes, cursor movement beyond the grid, save and restore.
Far == 9

CursorInputs ==
  { <<chX>>, <<LF>>, <<BS>>, <<TAB>>,
    CsiSeq(<<>>, chs), CsiSeq(<<>>, chu),
    CsiSeq(<<Far, Far>>, chH), CsiSeq(<<Far>>, chC), CsiSeq(<<Far>>, chB),
    CsiSeq(<<Far>>, chA) }

NextCursor == \E data \in CursorInputs : Feed(data)

SpecCursor == Init /\ [][NextCursor]_vars

InGrid(x, y, lastcol) == 0 <= x /\ x <= lastcol /\ 0 <= y /\ y <= Rows - 1

\* C2 as stated: the cursor, and the saved cursor, always satisfy
\* 0 <= cx <= cols-1 and 0 <= cy <= rows-1.
CursorClamped ==
  /\ InGrid(cx, cy, Cols - 1)
  /\ saved # None => InGrid(saved[1], saved[2], Cols - 1)

\* C2 amended: 0 <= cx <= cols and 0 <= cy <= rows-1, for the cursor and the
\* saved cursor: cx = cols is the position right after a write in the last
\* column.
CursorWithinGrid ==
  /\ InGrid(cx, cy, Cols)
  /\ saved # None => InGrid(saved[1], saved[2], Cols)

\* C2 witness: a character was written in the last column, the position past
\* it was saved and CSI u restored it.
CursorPastLastColumn ==
  /\ cx = Cols /\ saved = <<Cols, cy>> /\ final = chu
  /\ cells[cy + 1][Cols].ch = chX

\* ----------------------------------------------------- text specification
\* Printable ASCII only, up to a row per feed call, until the grid is full
\* and one byte more.
TextBytes == {chX, chY}

RowsOf(bytes) == UNION {[1..n -> bytes] : n \in 1..Cols}

FeedText(data) == Len(fed) + Len(data) <= Rows * Cols + 1 /\ Feed(data)

NextText == \E data \in RowsOf(TextBytes) : FeedText(data)

SpecText == Init /\ [][NextText]_vars

IsPrintableAscii(b) == 32 <= b /\ b <= 126

\* the cell at row y, column x (0-based, as in the code)
At(y, x) == cells[y + 1][x + 1]

\* C4: after k <= rows*cols printable ASCII bytes on a fresh grid, byte i is
\* in the cell at row i div cols, column i mod cols, with the default
\* attributes, and every other cell is still a default blank.
TextFillsGrid ==
  (Len(fed) <= Rows * Cols /\ \A k \in 1..Len(fed) : IsPrintableAscii(fed[k]))
  => \A i \in 0..(Rows * Cols - 1) :
       At(i \div Cols, i % Cols) =
         IF i < Len(fed) THEN Cell(fed[i + 1], DefaultFg, DefaultBg, FALSE)
                         ELSE DefaultCell

\* C4 witness: the grid is exactly full, first and last byte in the corners.
GridFullOfText ==
  /\ Len(fed) = Rows * Cols
  /\ At(0, 0).ch = chX /\ fed[1] = chX
  /\ At(Rows - 1, Cols - 1).ch = chY /\ fed[Rows * Cols] = chY
  /\ cx = Cols /\ cy = Rows - 1

\* --------------------------------------------------- scroll specification
\* Text, whole rows of text, line feeds and attribute changes.
ScrollInputs ==
  { <<chX>>, <<chY>>, [x \in 1..Cols |-> chX], <<LF>>,
    CsiSeq(<<1, 31, 44>>, chm), CsiSeq(<<0>>, chm) }

NextScroll == \E data \in ScrollInputs : Feed(data)

SpecScroll == Init /\ [][NextScroll]_vars

\* the bytes of the feed call a step makes
Data == SubSeq(fed', Len(fed) + 1, Len(fed'))

PendingBlankRow == BlankRow(Cols, current_fg, current_bg, bold)

\* fed is text of at most a row followed by at least rows line feeds
TextThenLineFeeds(s) ==
  \E n \in 1..Cols :
     /\ Len(s) >= n + Rows
     /\ \A k \in 1..n : IsPrintableAscii(s[k])
     /\ \A k \in (n + 1)..Len(s) : s[k] = LF

\* C5: a line feed on the last row, or a character written past the last
\* column of the last row, scrolls by exactly one row: row 0 is dropped, the
\* other rows move up unchanged, the new last row is blank with the pending
\* attributes, and the cursor stays on the last row.  After text and at
\* least rows line feeds the text is gone from the grid.
ScrollStep ==
  /\ (state = "normal" /\ cy = Rows - 1 /\ Data = <<LF>>)
       => /\ cells' = Append(Tail(cells), PendingBlankRow)
          /\ cy' = Rows - 1 /\ cx' = 0
  /\ (state = "normal" /\ cy = Rows - 1 /\ cx >= Cols
        /\ Len(Data) = 1 /\ IsPrintableAscii(Data[1]))
       => /\ cells' = Append(Tail(cells),
                             [PendingBlankRow EXCEPT ![1] =
                                Cell(Data[1], current_fg, current_bg, bold)])
          /\ cy' = Rows - 1 /\ cx' = 1
  /\ TextThenLineFeeds(fed')
       => \A y \in 1..Rows : \A x \in 1..Cols : cells'[y][x].ch = SPACE

ScrollsByOneRow == [][ScrollStep]_vars

\* C5 witness: text was scrolled out by line feeds and the new last row
\* carries the pending, non-default attributes.
ScrolledWithAttributes ==
  /\ Len(fed) > 0 /\ fed[Len(fed)] = LF /\ cy = Rows - 1
  /\ \E k \in 1..Len(fed) : fed[k] = chX
  /\ cells[Rows] = BlankRow(Cols, Base(1), Base(4), TRUE)
  /\ \A y \in 1..Rows : \A x \in 1..Cols : cells[y][x].ch = SPACE

\* ------------------------------------------------------ SGR specification
\* Text and complete SGR sequences with the basic codes.
SgrInputs ==
  { <<chX>>, <<chY>>,
    CsiSeq(<<1, 31>>, chm), CsiSeq(<<0>>, chm), CsiSeq(<<97, 107>>, chm) }

NextSgr == \E data \in SgrInputs : Feed(data)

SpecSgr == Init /\ [][NextSgr]_vars

\* the emulator after one more feed call on data
After(data) == feed(Self, data)

\* the cell the next printable byte b is written to, after the SGR sequence
\* with the parameters ps
WrittenAfterSgr(ps, b) ==
  LET w == After(CsiSeq(ps, chm) \o <<b>>) IN w.cells[w.cy + 1][w.cx]

Example6 == CsiSeq(<<1, 31>>, chm) \o <<chX>> \o CsiSeq(<<0>>, chm) \o <<chY>>

\* C6: in Normal state, the cell written next after an SGR sequence carries
\* the pending attributes as that sequence left them: 1 sets emphasis,
\* 30-37/90-97 the foreground and 40-47/100-107 the background from
\* BASE_COLORS, 0 or no parameter restores the defaults; and
\* ESC[1;31m X ESC[0m Y gives an emphasised X in palette colour 1 and a
\* default Y.
WrittenCellCarriesPending ==
  /\ state = "normal" =>
       \A b \in {chX} :
         /\ After(<<b>>).cells[After(<<b>>).cy + 1][After(<<b>>).cx]
              = Cell(b, current_fg, current_bg, bold)
         /\ WrittenAfterSgr(<<1>>, b) = Cell(b, current_fg, current_bg, TRUE)
         /\ \A p \in 30..37 :
              WrittenAfterSgr(<<p>>, b) = Cell(b, Base(p - 30), current_bg, bold)
         /\ \A p \in 90..97 :
              WrittenAfterSgr(<<p>>, b)
                = Cell(b, Base(p - 90 + 8), current_bg, bold)
         /\ \A p \in 40..47 :
              WrittenAfterSgr(<<p>>, b) = Cell(b, current_fg, Base(p - 40), bold)
         /\ \A p \in 100..107 :
              WrittenAfterSgr(<<p>>, b)
                = Cell(b, current_fg, Base(p - 100 + 8), bold)
         /\ WrittenAfterSgr(<<0>>, b) = Cell(b, DefaultFg, DefaultBg, FALSE)
         /\ WrittenAfterSgr(<<>>, b) = Cell(b, DefaultFg, DefaultBg, FALSE)
  /\ fed = Example6 =>
       /\ At(0, 0) = Cell(chX, Base(1), DefaultBg, TRUE)
       /\ At(0, 1) = Cell(chY, DefaultFg, DefaultBg, FALSE)

\* C6 witness: ESC[1;31m X ESC[0m Y was fed in four feed calls.
Example6Fed ==
  /\ fed = Example6 /\ calls = 4
  /\ At(0, 0).bold /\ At(0, 0).fg = Base(1) /\ ~At(0, 1).bold

\* --------------------------------------- extended-colour specification
\* Text and complete SGR sequences with the 38/48 forms.
ExtInputs ==
  { <<chX>>, CsiSeq(<<1, 44>>, chm),
    CsiSeq(<<38, 5, 1>>, chm), CsiSeq(<<48, 2, 0, 0, 0>>, chm),
    CsiSeq(<<38, 2, 1, 2, 5, 1>>, chm) }

NextExt == \E data \in ExtInputs : Feed(data)

SpecExt == Init /\ [][NextExt]_vars

\* pending attributes of an emulator
Pending(e) == <<e.current_fg, e.current_bg, e.bold>>

WithColour(is_fg, color) ==
  IF is_fg THEN [Self EXCEPT !.current_fg = color]
           ELSE [Self EXCEPT !.current_bg = color]

\* the pending attributes once the colour is set and the parameters `rest`
\* are processed as an SGR sequence of their own
ColourThenRest(is_fg, color, rest) ==
  Pending(IF rest = <<>> THEN WithColour(is_fg, color)
          ELSE feed(WithColour(is_fg, color), CsiSeq(rest, chm)))

Indices == {1, 16, 255}
Triples == {<<0, 0, 0>>, <<255, 38, 48>>}
Rests == {<<>>, <<1>>, <<0, 44>>}

\* C9: 38 or 48 followed by 2,R,G,B sets the pending foreground or
\* background to (R,G,B), followed by 5,n to color_from_index(n); the
\* parameters of the form are not read as SGR codes, and the parameters
\* after it are processed as ordinary SGR codes.
ExtendedColourConsumed ==
  state = "normal" =>
    \A P \in {38, 48} : \A rest \in Rests :
      /\ \A n \in Indices :
           Pending(After(CsiSeq(<<P, 5, n>> \o rest, chm)))
             = ColourThenRest(P = 38, color_from_index(n), rest)
      /\ \A t \in Triples :
           Pending(After(CsiSeq(<<P, 2>> \o t \o rest, chm)))
             = ColourThenRest(P = 38, t, rest)

\* C9 witness: after ESC[38;2;1;2;5;1m the foreground is (1,2,5) and the
\* trailing 1 enabled emphasis; a cell was written with them.
ExtendedThenBold ==
  /\ ints = <<38, 2, 1, 2, 5, 1>> /\ final = chm
  /\ current_fg = <<1, 2, 5>> /\ bold
  /\ \E x \in 0..(Cols - 1) : At(0, x) = Cell(chX, <<1, 2, 5>>, DefaultBg, TRUE)

\* ------------------------------------------ cursor-position specification
\* Text and complete CSI H / f / m sequences, some with empty fields.
ch1 == 49
ch3 == 51
ch5 == 53
ch0 == 48

\* ESC [ raw final, with the parameter text given byte by byte
RawCsi(raw, fin) == <<ESC, LBRACKET>> \o raw \o <<fin>>

CupInputs ==
  { <<chX>>, CsiSeq(<<Rows, Cols>>, chH), CsiSeq(<<Far, Far>>, chf),
    RawCsi(<<SEMI, ch5>>, chH),
    RawCsi(<<ch1, SEMI, SEMI, ch3, ch1>>, chm) }

NextCup == \E data \in CupInputs : Feed(data)

SpecCup == Init /\ [][NextCup]_vars

Clamp(v, lo, hi) == Max(lo, Min(hi, v))

Coordinates == {0, 1, Rows, Cols, Far}

PositionParams ==
  {<<>>} \cup {<<r>> : r \in Coordinates}
         \cup {<<r, c>> : r \in Coordinates, c \in Coordinates}

\* C7: CSI H and CSI f with parameters row;col, each 1 when absent, put the
\* cursor at cy = clamp(row-1, 0, rows-1), cx = clamp(col-1, 0, cols-1), and
\* the next printable byte changes exactly that cell, to that byte with the
\* pending attributes.
CursorPositionExact ==
  state = "normal" =>
    \A fin \in {chH, chf} : \A ps \in PositionParams :
      LET row == IF Len(ps) >= 1 THEN ps[1] ELSE 1
          col == IF Len(ps) >= 2 THEN ps[2] ELSE 1
          y == Clamp(row - 1, 0, Rows - 1)
          x == Clamp(col - 1, 0, Cols - 1)
          e1 == After(CsiSeq(ps, fin))
          w == feed(e1, <<chX>>)
      IN  /\ e1.cy = y /\ e1.cx = x /\ e1.cells = cells
          /\ w.cells = [cells EXCEPT ![y + 1][x + 1] =
                          Cell(chX, current_fg, current_bg, bold)]

\* C7 witness: ESC[rows;colsH was fed and then X, which is in the last cell.
WrittenAtPosition ==
  /\ final = chH /\ ints = <<Rows, Cols>>
  /\ Len(fed) > 0 /\ fed[Len(fed)] = chX
  /\ cy = Rows - 1 /\ cx = Cols
  /\ At(Rows - 1, Cols - 1).ch = chX
  /\ At(0, 0).ch = SPACE

\* The parameter list as C8 states it: one value per ';'-separated field,
\* 0 for an empty or non-numeric field (no field when there is no text).
FieldValues(raw) ==
  IF raw = <<>> THEN <<>>
  ELSE [k \in 1..Len(Split(raw)) |->
          IF Len(Split(raw)[k]) > 0 /\ ~IntRaises(Split(raw)[k])
            THEN int(Split(raw)[k]) ELSE 0]

\* C8: a CSI sequence fed in Normal state is dispatched with one parameter
\* per ';'-separated field, an empty field being 0 at its position; so
\* ESC[;5H moves the cursor to row 0, column 4 (clamped to the grid).
ParamStep ==
  /\ \A raw \in {<<SEMI, ch5>>, <<ch1, SEMI, SEMI, ch3, ch1>>} :
       \A fin \in {chH, chm} :
         (state = "normal" /\ Data = RawCsi(raw, fin))
           => ints' = FieldValues(raw)
  /\ (state = "normal" /\ Data = RawCsi(<<SEMI, ch5>>, chH))
       => cy' = 0 /\ cx' = Clamp(4, 0, Cols - 1)

ParamsKeepPosition == [][ParamStep]_vars

\* ------------------------------------------------ erase-line specification
\* Rows of text, attribute changes, cursor positioning and CSI K.
EraseInputs ==
  { [x \in 1..Cols |-> chX], CsiSeq(<<1, 44>>, chm), CsiSeq(<<1, 2>>, chH),
    CsiSeq(<<>>, chK), CsiSeq(<<1>>, chK), CsiSeq(<<2>>, chK),
    CsiSeq(<<3>>, chK) }

NextErase == \E data \in EraseInputs : Feed(data)

SpecErase == Init /\ [][NextErase]_vars

\* the cursor row with the columns lo..hi replaced by pending blanks
RowErased(lo, hi) ==
  [cells EXCEPT ![cy + 1] =
     [x \in 1..Cols |->
        IF lo <= x - 1 /\ x - 1 <= hi
          THEN Cell(SPACE, current_fg, current_bg, bold)
          ELSE cells[cy + 1][x]]]

Unmoved(e) ==
  /\ e.cx = cx /\ e.cy = cy /\ e.saved = saved
  /\ Pending(e) = <<current_fg, current_bg, bold>>

\* C10: CSI K replaces, in the cursor row only, columns cx..cols-1 (mode 0
\* or no parameter), 0..cx (mode 1) or the whole row (mode 2) by blank cells
\* with the pending attributes, and changes no other cell, nor the cursor,
\* the saved cursor or the pending attributes.
EraseInLine ==
  state = "normal" =>
    /\ After(CsiSeq(<<>>, chK)).cells = RowErased(cx, Cols - 1)
    /\ After(CsiSeq(<<0>>, chK)).cells = RowErased(cx, Cols - 1)
    /\ After(CsiSeq(<<1>>, chK)).cells = RowErased(0, cx)
    /\ After(CsiSeq(<<2>>, chK)).cells = RowErased(0, Cols - 1)
    /\ \A ps \in {<<>>, <<0>>, <<1>>, <<2>>} : Unmoved(After(CsiSeq(ps, chK)))

\* C10 witness: ESC[1K with the cursor in column 1 of a row of text, emphasis
\* and a background pending: columns 0 and 1 are styled blanks, the rest of
\* the row is text.
ErasedToCursor ==
  /\ final = chK /\ ints = <<1>> /\ cx = 1 /\ cy = 0
  /\ At(0, 0) = Cell(SPACE, DefaultFg, Base(4), TRUE)
  /\ At(0, 1) = Cell(SPACE, DefaultFg, Base(4), TRUE)
  /\ At(0, 2) = Cell(chX, DefaultFg, DefaultBg, FALSE)

\* ----------------------------------------------- full reset specification
\* Text, attributes, a saved cursor, line feeds and CSI J with mode 2.
ResetInputs ==
  { [x \in 1..Cols |-> chX], CsiSeq(<<1, 44>>, chm), CsiSeq(<<>>, chs),
    CsiSeq(<<2>>, chJ), <<LF>> }

NextReset == \E data \in ResetInputs : Feed(data)

SpecReset == Init /\ [][NextReset]_vars

Blank(e) ==
  /\ e.cells = [y \in 1..rows |-> [x \in 1..cols |-> DefaultCell]]
  /\ e.cx = 0 /\ e.cy = 0 /\ e.saved = None
  /\ e.current_fg = DefaultFg /\ e.current_bg = DefaultBg /\ e.bold = FALSE
  /\ e.state = "normal"
  /\ e.rows = rows /\ e.cols = cols

\* C11: wherever the emulator stands between sequences, CSI J with mode 2
\* leaves the grid at its size with every cell the default blank, the cursor
\* at (0, 0), no saved cursor, the default pending attributes and the parser
\* in Normal.
FullResetBlank ==
  state = "normal"
    => \A ps \in {<<2>>, <<2, 5>>} : Blank(After(CsiSeq(ps, chJ)))

\* Witness: text was written and the cursor saved, then CSI 2 J was fed and
\* the emulator is blank again.
ResetAfterWork ==
  /\ final = chJ /\ ints = <<2>> /\ fed[Len(fed)] = chJ
  /\ \E k \in 1..Len(fed) : fed[k] = chX
  /\ \E k \in 1..Len(fed) : fed[k] = chs
  /\ Blank(Self)

\* --------------------------------------------- save/restore specification
\* Text, line feeds, a far cursor move, CSI s, CSI u and the full reset.
SaveInputs ==
  { <<chX>>, <<LF>>, CsiSeq(<<Far, Far>>, chH), CsiSeq(<<>>, chs),
    CsiSeq(<<>>, chu), CsiSeq(<<2>>, chJ) }

NextSave == \E data \in SaveInputs : Feed(data)

SpecSave == Init /\ [][NextSave]_vars

SaveStep ==
  /\ Data = CsiSeq(<<>>, chs)
       => /\ saved' = <<cx, cy>>
          /\ cx' = cx /\ cy' = cy /\ cells' = cells
  /\ Data = CsiSeq(<<>>, chu)
       => /\ saved' = saved /\ cells' = cells
          /\ Pending(Self)' = Pending(Self)
          /\ IF saved = None THEN cx' = cx /\ cy' = cy
                             ELSE cx' = saved[1] /\ cy' = saved[2]
  /\ Data \notin {CsiSeq(<<>>, chs), CsiSeq(<<2>>, chJ)} => saved' = saved
  /\ Data = CsiSeq(<<2>>, chJ) => saved' = None

\* C12: CSI s stores the cursor position over any earlier one; no input other
\* than CSI s and CSI 2 J changes the stored position, so CSI u puts the
\* cursor on the position of the latest CSI s whatever was fed in between;
\* CSI u with nothing stored (fresh, or after CSI 2 J) changes nothing.
SaveRestoreCursor == [][SaveStep]_vars

\* Witness: the cursor was saved at (1, 0), moved to the far corner and
\* brought back by CSI u.
RestoredAfterMove ==
  /\ final = chu /\ fed[Len(fed)] = chu
  /\ saved = <<1, 0>> /\ cx = 1 /\ cy = 0
  /\ \E k \in 1..Len(fed) : fed[k] = chH

\* ------------------------------------------------------------ OSC strings
\* The bytes of the step end an OSC string: BEL, or ESC followed by a
\* backslash, the ESC being the last byte of the previous feed call or the
\* first byte of this one.
EndsOsc(prev, data) ==
  \/ data[1] = BEL
  \/ data[1] = BACKSLASH /\ Len(prev) > 0 /\ prev[Len(prev)] = ESC
  \/ Len(data) = 2 /\ data[1] = ESC /\ data[2] = BACKSLASH

OscStep ==
  /\ (state = "esc" /\ Data = <<RBRACKET>>) => state' = "osc"
  /\ state = "osc"
       => /\ cells' = cells /\ cx' = cx /\ cy' = cy /\ saved' = saved
          /\ Pending(Self)' = Pending(Self)
          /\ state' = IF EndsOsc(fed, Data) THEN "normal" ELSE "osc"
  /\ (state = "normal" /\ Data = <<chX>>) => cells' # cells

\* C13: ESC ] puts the parser in OSC state; there every byte is dropped,
\* leaving cells, cursor, saved cursor and pending attributes alone, and the
\* parser stays in OSC state, across feed calls, until BEL or ESC backslash
\* arrives, which returns it to Normal, where a printable byte is written.
OscAbsorbsUntilTerminator == [][OscStep]_vars

\* ------------------------------------------------ rendering specification
\* Text, three background settings, line feeds, and render_svg calls.
RenderInputs ==
  { <<chX>>, CsiSeq(<<44>>, chm), CsiSeq(<<41>>, chm), CsiSeq(<<0>>, chm),
    <<LF>> }

NextRender == (\E data \in RenderInputs : Feed(data)) \/ Render

SpecRender == Init /\ [][NextRender]_vars

Bg(y, x) == cells[y + 1][x + 1].bg

\* The maximal runs of row y: columns s..t share one background and the
\* columns next to them, if any, have another.
MaxRuns(y) ==
  { st \in (0..(cols - 1)) \X (0..(cols - 1)) :
      /\ st[1] <= st[2]
      /\ \A x \in st[1]..st[2] : Bg(y, x) = Bg(y, st[1])
      /\ st[1] = 0 \/ Bg(y, st[1] - 1) # Bg(y, st[1])
      /\ st[2] = cols - 1 \/ Bg(y, st[2] + 1) # Bg(y, st[1]) }

RunRect(y, s, n) ==
  [x |-> Padding + s * CellW, y |-> Padding + y * CellH,
   width |-> n * CellW, height |-> CellH, fill |-> rgb_hex(Bg(y, s))]

RunRects ==
  UNION { { RunRect(y, st[1], st[2] - st[1] + 1) :
              st \in { r \in MaxRuns(y) : Bg(y, r[1]) # Bg(0, 0) } } :
          y \in 0..(rows - 1) }

BackgroundStep ==
  renders' = renders + 1
    => /\ svg'.base = rgb_hex(Bg(0, 0))
       /\ { svg'.rects[i] : i \in 1..Len(svg'.rects) } = RunRects
       /\ Len(svg'.rects) = Cardinality(RunRects)
       /\ (\A y \in 0..(rows - 1) : \A x \in 0..(cols - 1) :
             Bg(y, x) = Bg(0, 0)) => svg'.rects = <<>>

\* C14: a render call fills the base rectangle with the background of cell
\* (0, 0) and emits, for each row, exactly one rectangle per maximal run of
\* equal backgrounds that differ from the base, over exactly the run's
\* columns, and no other rectangle; a uniform grid gets none.
BackgroundRuns == [][BackgroundStep]_vars

\* Witness: a rendered grid whose base is blue and whose first row has two
\* adjacent rectangles of different colours.
AdjacentRunsRendered ==
  /\ renders > 0 /\ svg = render_svg(Self)
  /\ svg.base = rgb_hex(Base(4))
  /\ \E i \in 1..(Len(svg.rects) - 1) :
       /\ svg.rects[i].y = Padding /\ svg.rects[i + 1].y = Padding
       /\ svg.rects[i].x + svg.rects[i].width = svg.rects[i + 1].x
       /\ svg.rects[i].fill # svg.rects[i + 1].fill

RenderStep ==
  renders' = renders + 1
    => /\ cells' = cells /\ cx' = cx /\ cy' = cy /\ saved' = saved
       /\ Pending(Self)' = Pending(Self)
       /\ state' = state /\ csi_buf' = csi_buf /\ osc_active' = osc_active
       /\ cols' = cols /\ rows' = rows
       /\ svg' = render_svg([Self EXCEPT !.cells = cells'])

\* C15: a render call changes neither the cells nor the cursor, the saved
\* cursor, the pending attributes or the parser state, and the document it
\* returns is the one the grid it leaves behind renders to, so that a
\* second call on the same grid returns the same document.
RenderReadsOnly == [][RenderStep]_vars

\* Witness: a grid with text, a coloured background and the cursor away from
\* the origin has been rendered twice and still renders to the same document.
RenderedTwice ==
  /\ renders >= 2 /\ svg = render_svg(Self)
  /\ cx > 0 /\ Len(svg.rects) > 0

\* ---------------------------------------------------- palette specification
\* One extended-colour sequence ESC [ 38;5;idx m or ESC [ 48;5;idx m on a
\* fresh emulator, for every palette index.
PaletteIndices == 0..255

SetColour(which, idx) ==
  fed = <<>> /\ Feed(CsiSeq(<<which, 5, idx>>, chm))

NextPalette == \E which \in {38, 48} : \E idx \in PaletteIndices : SetColour(which, idx)

SpecPalette == Init /\ [][NextPalette]_vars

CubeLevel(x) == IF x = 0 THEN 0 ELSE 55 + 40 * x

Banded(idx) ==
  IF idx <= 15 THEN BASE_COLORS[idx + 1]
  ELSE IF idx <= 231 THEN
    <<CubeLevel(((idx - 16) \div 36) % 6), CubeLevel(((idx - 16) \div 6) % 6),
      CubeLevel((idx - 16) % 6)>>
  ELSE <<8 + 10 * (idx - 232), 8 + 10 * (idx - 232), 8 + 10 * (idx - 232)>>

Chosen == IF ints[1] = 38 THEN current_fg ELSE current_bg

\* C16: the colour selected by palette index idx in 0..255 has its three
\* components in 0..255 and is BASE_COLORS[idx] for 0..15, the 6x6x6 cube
\* colour with levels 0, 95, 135, 175, 215, 255 for 16..231 and the grey
\* 8 + 10 * (idx - 232) for 232..255; 16 is black, 231 white, 232 and 255
\* the greys 8 and 238.
PaletteBands ==
  final = chm
    => /\ Chosen = Banded(ints[3])
       /\ \A k \in 1..3 : Chosen[k] \in 0..255
       /\ ints[3] = 16 => Chosen = <<0, 0, 0>>
       /\ ints[3] = 231 => Chosen = <<255, 255, 255>>
       /\ ints[3] = 232 => Chosen = <<8, 8, 8>>
       /\ ints[3] = 255 => Chosen = <<238, 238, 238>>

\* Witness: index 231, the last cube colour, was selected as foreground.
WhiteSelected ==
  final = chm /\ ints = <<38, 5, 231>> /\ current_fg = <<255, 255, 255>>

\* ------------------------------------------- relative moves specification
\* Text, line feeds, CSI s, a move right beyond the grid and a move up.
MoveInputs ==
  { <<chX>>, <<LF>>, CsiSeq(<<>>, chs), CsiSeq(<<Far>>, chC),
    CsiSeq(<<>>, chA) }

NextMove == \E data \in MoveInputs : Feed(data)

SpecMove == Init /\ [][NextMove]_vars

Distances == {<<>>, <<0>>, <<1>>, <<2>>, <<Far>>}

Moved(fin, n) ==
  IF fin = chA THEN <<cx, Max(0, cy - n)>>
  ELSE IF fin = chB THEN <<cx, Min(rows - 1, cy + n)>>
  ELSE IF fin = chC THEN <<Min(cols - 1, cx + n), cy>>
  ELSE <<Max(0, cx - n), cy>>

\* C17: CSI A, B, C, D with parameter n (1 when absent) move the cursor up,
\* down, right, left by n, stopping at row 0, row rows - 1, column cols - 1,
\* column 0; the other coordinate, the cells, the saved cursor and the
\* pending attributes stay, also for n beyond the grid size.
RelativeMoves ==
  state = "normal"
    => \A fin \in {chA, chB, chC, chD} : \A ns \in Distances :
         LET r == After(CsiSeq(ns, fin))
             n == IF ns = <<>> THEN 1 ELSE ns[1]
         IN  /\ <<r.cx, r.cy>> = Moved(fin, n)
             /\ r.cells = cells /\ r.saved = saved
             /\ Pending(r) = Pending(Self)
             /\ r.state = "normal"

\* Witness: with a cursor saved and text written, CSI 9 C was fed and the
\* cursor stopped on the last column.
MovedToLastColumn ==
  /\ final = chC /\ ints = <<Far>> /\ fed[Len(fed)] = chC
  /\ cx = cols - 1 /\ saved # None /\ saved[1] < cols - 1
  /\ \E k \in 1..Len(fed) : fed[k] = chX

\* ------------------------------------------- control bytes specification
\* A grid wide enough to hold a tab stop; text, a full row of text and the
\* control bytes CR, LF, BS, TAB, BEL, one input per feed call.
ControlInputs ==
  { <<chX>>, [x \in 1..WideCols |-> chX],
    <<CR>>, <<LF>>, <<BS>>, <<TAB>>, <<BEL>> }

InitWide == Constructed(WideCols, Rows)

NextControl == \E data \in ControlInputs : Feed(data)

SpecControl == InitWide /\ [][NextControl]_vars

\* text of at most cols printable bytes followed by CR LF
TextCrLf(s) ==
  /\ Len(s) >= 2 /\ Len(s) - 2 <= cols
  /\ s[Len(s) - 1] = CR /\ s[Len(s)] = LF
  /\ \A k \in 1..(Len(s) - 2) : IsPrintableAscii(s[k])

ControlStep ==
  /\ Data = <<CR>> => cx' = 0 /\ cy' = cy /\ cells' = cells
  /\ Data = <<LF>>
       => /\ cx' = 0
          /\ IF cy < rows - 1
               THEN cy' = cy + 1 /\ cells' = cells
               ELSE /\ cy' = cy
                    /\ cells' = Append(Tail(cells),
                                       BlankRow(cols, current_fg, current_bg,
                                                bold))
  /\ Data = <<BS>> => cx' = Max(0, cx - 1) /\ cy' = cy /\ cells' = cells
  /\ Data = <<TAB>>
       => /\ cx' = Min(cols - 1, ((cx \div 8) + 1) * 8)
          /\ cy' = cy /\ cells' = cells
  /\ Data = <<BEL>> => cx' = cx /\ cy' = cy /\ cells' = cells
  /\ Data \in {<<CR>>, <<LF>>, <<BS>>, <<TAB>>, <<BEL>>}
       => saved' = saved /\ Pending(Self)' = Pending(Self) /\ state' = state
  /\ (rows >= 2 /\ TextCrLf(fed')) => cx' = 0 /\ cy' = 1

\* C18: in Normal state CR sets the column to 0 and keeps the row; LF sets
\* the column to 0 and goes to the next row, scrolling on the last row; BS
\* moves one column left, not below 0; TAB goes to the next multiple of 8,
\* at most cols - 1; BEL does nothing; only the scroll of LF changes cells;
\* on a fresh grid of two or more rows, text of at most cols bytes followed
\* by CR LF leaves the cursor at column 0 of row 1.
ControlBytes == [][ControlStep]_vars

\* Witness: TAB took the cursor from column 1 to the tab stop at column 8,
\* inside the grid.
TabStopReached ==
  /\ fed = <<chX, TAB>> /\ cx = 8 /\ cx < cols - 1 /\ cy = 0

\* ---------------------------------------------- attributes specification
\* Text, CSI s and SGR sequences: basic codes, both extended forms in one
\* sequence, an extended form cut short, and the empty parameter list.
AttrInputs ==
  { <<chX>>, CsiSeq(<<>>, chs), CsiSeq(<<1, 31>>, chm),
    CsiSeq(<<38, 5, 196, 48, 2, 1, 2, 3>>, chm), CsiSeq(<<38, 5>>, chm),
    CsiSeq(<<>>, chm) }

NextAttr == \E data \in AttrInputs : Feed(data)

SpecAttr == Init /\ [][NextAttr]_vars

SgrOnlyStep ==
  (Len(Data) > 0 /\ Data[Len(Data)] = chm)
    => /\ cells' = cells /\ cx' = cx /\ cy' = cy /\ saved' = saved
       /\ state' = "normal"

\* C19: an SGR sequence (CSI ... m) leaves the cells, the cursor and the
\* saved cursor as they were; it acts on the pending attributes only.
SgrChangesPendingOnly == [][SgrOnlyStep]_vars

\* Witness: after text was written and the cursor saved, an SGR sequence
\* set the pending background to (1, 2, 3); the written cell kept its
\* default colours.
PendingSetCellsKept ==
  /\ final = chm /\ fed[Len(fed)] = chm
  /\ current_bg = <<1, 2, 3>> /\ current_fg = color_from_index(196)
  /\ At(0, 0) = Cell(chX, DefaultFg, DefaultBg, FALSE)
  /\ saved = <<1, 0>> /\ cx = 1 /\ cy = 0

\* ------------------------------------------------- CSI state specification
\* ESC [ in one feed call, then parameter bytes and final bytes one per call;
\* X is text in Normal state and an unknown final byte in CSI state.
CsiInputs ==
  { <<ESC, LBRACKET>>, <<ch0>>, <<ch1>>, <<SUP2>>, <<chJ>>, <<chX>> }

NextCsi == \E data \in CsiInputs : Feed(data)

SpecCsi == Init /\ [][NextCsi]_vars

IsFinal(b) == AT <= b /\ b <= TILDE

\* the final byte and the buffered parameters make a sequence without effect
NoEffect(fin, buf) ==
  \/ fin \notin {chH, chf, chA, chB, chC, chD, chJ, chK, chm, chs, chu}
  \/ fin = chJ /\ buf \in {<<>>, <<ch0>>, <<ch1>>}

CsiEndStep ==
  (state = "csi" /\ Len(Data) = 1 /\ IsFinal(Data[1]))
    => /\ state' = "normal"
       /\ NoEffect(Data[1], csi_buf)
            => /\ cells' = cells /\ cx' = cx /\ cy' = cy /\ saved' = saved
               /\ Pending(Self)' = Pending(Self)

\* C20: in CSI state the first byte in '@'..'~' ends the sequence and puts
\* the parser back in Normal; a final byte other than H f A B C D J K m s u,
\* or J with mode 0, 1 or no parameter, changes neither cells, cursor, saved
\* cursor nor pending attributes.
FinalByteEndsCsi == [][CsiEndStep]_vars

\* --------------------------------------------- dimensions specification
\* Text that wraps and scrolls, line feeds, a far cursor move, CSI K and the
\* full reset.
SizeInputs ==
  { [x \in 1..Cols |-> chX], <<chX>>, <<LF>>, CsiSeq(<<Far, Far>>, chH),
    CsiSeq(<<>>, chK), CsiSeq(<<2>>, chJ) }

NextSize == \E data \in SizeInputs : Feed(data)

SpecSize == Init /\ [][NextSize]_vars

\* C21: whatever is fed, scrolls, line erases and full resets included, the
\* emulator keeps the rows and cols it was constructed with, the grid has
\* rows rows and every row has cols cells.
GridDimensions ==
  /\ rows = Rows /\ cols = Cols
  /\ Len(cells) = rows
  /\ \A y \in 1..Len(cells) : Len(cells[y]) = cols

\* Witness: the grid was scrolled (as many line feeds as rows), a line was
\* erased and the full reset was fed.
ScrolledErasedReset ==
  /\ Cardinality({k \in 1..Len(fed) : fed[k] = LF}) >= rows
  /\ \E k \in 1..Len(fed) : fed[k] = chK
  /\ final = chJ /\ ints = <<2>>

\* ------------------------------------------------ text runs specification
\* Each feed call sets an attribute and writes one character; a draw_text
\* call puts a NUL and a '<' in red on row 0; render_svg calls in between.
RunInputs ==
  { CsiSeq(<<1>>, chm) \o <<chX>>, CsiSeq(<<31>>, chm) \o <<AMP>>,
    CsiSeq(<<0>>, chm) \o <<chY>>, <<chX>>, <<LF>> }

NextRuns ==
  \/ \E data \in RunInputs : Feed(data)
  \/ DrawText(1, 0, <<NUL, LT>>, Base(1), None, FALSE)
  \/ Render

SpecRuns == Init /\ [][NextRuns]_vars

\* What an XML reader makes of escaped character data.
StartsWith(s, p) == Len(s) >= Len(p) /\ SubSeq(s, 1, Len(p)) = p

RECURSIVE Unescape(_)
Unescape(s) ==
  IF s = <<>> THEN <<>>
  ELSE IF \E c \in {AMP, LT, GT, QUOT, APOS} : StartsWith(s, EscapeChar(c))
    THEN LET c == CHOOSE d \in {AMP, LT, GT, QUOT, APOS} :
                    StartsWith(s, EscapeChar(d))
         IN  <<c>> \o Unescape(SubSeq(s, Len(EscapeChar(c)) + 1, Len(s)))
    ELSE <<Head(s)>> \o Unescape(Tail(s))

Shown(ch) == IF ch = NUL THEN SPACE ELSE ch

\* columns (1-based) of row where a maximal run of equal (fg, bold) starts
RunStarts(row) ==
  { s \in 1..Len(row) :
      s = 1 \/ row[s - 1].fg # row[s].fg \/ row[s - 1].bold # row[s].bold }

NthStart(row, i) ==
  CHOOSE s \in RunStarts(row) :
    Cardinality({u \in RunStarts(row) : u < s}) = i - 1

RECURSIVE Spelled(_)
Spelled(spans) ==
  IF spans = <<>> THEN <<>>
  ELSE Unescape(Head(spans).text) \o Spelled(Tail(spans))

RowRuns(row, spans) ==
  /\ Len(row) = cols
  /\ Spelled(spans) = [x \in 1..cols |-> Shown(row[x].ch)]
  /\ Len(spans) = Cardinality(RunStarts(row))
  /\ \A i \in 1..Len(spans) :
       LET s == NthStart(row, i)
           t == IF i = Len(spans) THEN cols ELSE NthStart(row, i + 1) - 1
       IN  /\ spans[i].fill = rgb_hex(row[s].fg)
           /\ spans[i].bold = row[s].bold
           /\ Unescape(spans[i].text) =
                [k \in 1..(t - s + 1) |-> Shown(row[s + k - 1].ch)]

TextStep ==
  renders' = renders + 1
    => /\ Len(svg'.texts) = rows
       /\ \A y \in 1..rows : RowRuns(cells[y], svg'.texts[y].spans)

\* C22: a render call emits one text block per row; its runs, in order,
\* spell the row's cols characters (NUL as a space); each run covers a
\* maximal stretch of cells of one (foreground, emphasis) and carries that
\* foreground and weight, so neighbours that differ in either are in
\* different runs.
TextRuns == [][TextStep]_vars

\* Witness: a rendered row made of a bold run, a red run holding the space
\* shown for a NUL, and the escaped '<'.
StyledRunsRendered ==
  /\ renders > 0 /\ svg = render_svg(Self)
  /\ At(0, 0).bold /\ At(0, 1).ch = NUL /\ At(0, 2).ch = LT
  /\ Len(svg.texts[1].spans) >= 2
  /\ svg.texts[1].spans[2].text = <<SPACE>> \o EscapeChar(LT)
  /\ svg.texts[1].spans[2].fill = rgb_hex(Base(1))

\* --------------------------------------------- colour range specification
\* Text and extended-colour SGR sequences with parameters inside and beyond
\* 0..255, in the direct (2;r;g;b) and the indexed (5;n) form, and
\* render_svg calls.
RangeInputs ==
  { <<chX>>, CsiSeq(<<38, 2, Big, 0, 255>>, chm),
    CsiSeq(<<48, 2, 1, 2, 3>>, chm), CsiSeq(<<48, 5, Big>>, chm),
    CsiSeq(<<38, 5, 255>>, chm) }

NextRange == (\E data \in RangeInputs : Feed(data)) \/ Render

SpecRange == Init /\ [][NextRange]_vars

InRange(color) == \A k \in 1..3 : color[k] \in 0..255

\* '#' and six hex digits
SixDigits(fill) == Len(fill) = 7

\* C23: the components of every cell's foreground and background and of the
\* pending foreground and background are in 0..255 whatever numbers the SGR
\* sequences carried, and every fill colour of a rendered document has six
\* hex digits.
ColourRange ==
  /\ InRange(current_fg) /\ InRange(current_bg)
  /\ \A y \in 1..rows : \A x \in 1..cols :
       InRange(cells[y][x].fg) /\ InRange(cells[y][x].bg)
  /\ renders > 0
       => /\ SixDigits(svg.base)
          /\ \A i \in 1..Len(svg.rects) : SixDigits(svg.rects[i].fill)
          /\ \A y \in 1..Len(svg.texts) :
               \A i \in 1..Len(svg.texts[y].spans) :
                 SixDigits(svg.texts[y].spans[i].fill)

====
